---- MODULE Spec2Model ----
(***************************************************************************)
(* A model of the Sudoku board of src/sudoku/sudoku.py (class Puzzle).     *)
(*                                                                         *)
(* The object holds the grid (board), three cached views of it (rows,      *)
(* columns, boxes) and the mask of editable cells.  rows[i] is the very    *)
(* list object board[i] (makeDict stores what get_row returns, and get_row *)
(* returns self.board[index]), so a write through either name is seen      *)
(* through the other; columns[i] and boxes[i] are fresh lists built at     *)
(* construction time and change only where update writes them.             *)
(*                                                                         *)
(* calls holds the calls of update that are in progress when two callers   *)
(* run it without a lock: each one's arguments, the line it is at, its     *)
(* local prev and the locals row, column and box of its call of is_valid.  *)
(* It is empty while update is called by one caller.                       *)
(***************************************************************************)
EXTENDS Integers, Sequences, FiniteSets, TLC

VARIABLES file, board, rows, columns, boxes, mask, outcome, calls

vars == <<file, board, rows, columns, boxes, mask, outcome, calls>>

(***************************************************************************)
(* Program constants.                                                      *)
(***************************************************************************)
\* range(9): the number of rows, of columns, of boxes and of cells of a unit
N == 9
\* the divisor of c//3, r//3, c%3, r%3: the side of a box
BoxSize == 3
\* the largest member of the list [0,1,2,3,4,5,6,7,8,9] that update accepts
MaxDigit == 9

(***************************************************************************)
(* Bounds of the model.                                                    *)
(***************************************************************************)
\* update is called with the values -1 .. MaxVal and MaxDigit + 1
MaxVal == 2
\* update is called on the first MaxCells cells of CellSeq
MaxCells == 5
\* two concurrent callers call update on the first MaxRaceCells cells of
\* RaceCellSeq
MaxRaceCells == 3

Idx == 0 .. (N - 1)

(***************************************************************************)
(* The JSON files the constructor is given: nine lists of nine integers.   *)
(* Both are legal grids (no non-zero value twice in a row, column or box). *)
(* PuzzleA and PuzzleC are sparse puzzles; PuzzleB has four empty cells.   *)
(***************************************************************************)
PuzzleA ==
  << <<7, 0, 8, 1, 5, 9, 4, 3, 6>>,
     <<9, 6, 3, 7, 0, 4, 0, 5, 8>>,
     <<0, 4, 5, 3, 6, 8, 9, 7, 0>>,
     <<5, 3, 6, 0, 4, 0, 7, 8, 9>>,
     <<4, 7, 9, 5, 8, 6, 3, 0, 0>>,
     <<0, 8, 0, 9, 7, 3, 6, 4, 5>>,
     <<3, 9, 0, 8, 0, 7, 5, 6, 4>>,
     <<8, 0, 4, 6, 3, 5, 0, 9, 7>>,
     <<6, 5, 7, 4, 9, 0, 8, 0, 3>> >>

PuzzleB ==
  << <<3, 0, 5, 2, 6, 4, 7, 8, 9>>,
     <<1, 7, 4, 8, 0, 9, 6, 3, 5>>,
     <<9, 6, 8, 3, 5, 7, 4, 2, 1>>,
     <<0, 9, 7, 6, 1, 8, 3, 5, 4>>,
     <<4, 2, 3, 0, 7, 5, 8, 9, 6>>,
     <<8, 5, 6, 9, 4, 3, 2, 1, 7>>,
     <<5, 8, 2, 4, 9, 6, 1, 7, 3>>,
     <<6, 3, 9, 7, 8, 1, 5, 4, 2>>,
     <<7, 4, 1, 5, 3, 2, 9, 6, 8>> >>

PuzzleC ==
  << <<7, 0, 8, 1, 5, 9, 4, 3, 6>>,
     <<0, 5, 6, 7, 0, 3, 9, 8, 0>>,
     <<3, 4, 9, 6, 8, 2, 7, 5, 0>>,
     <<6, 3, 5, 0, 0, 4, 8, 9, 7>>,
     <<4, 8, 7, 9, 6, 5, 0, 0, 3>>,
     <<9, 0, 0, 8, 3, 7, 5, 6, 4>>,
     <<0, 9, 3, 4, 7, 8, 6, 0, 5>>,
     <<8, 7, 0, 5, 0, 6, 3, 4, 9>>,
     <<5, 6, 4, 3, 9, 0, 0, 7, 8>> >>

Puzzles == {PuzzleA, PuzzleB, PuzzleC}

\* the cells update is called on, <<r, c>>, in the order the bound admits them
CellSeq ==
  << <<0, 1>>, <<1, 4>>, <<0, 3>>, <<3, 0>>, <<4, 3>>, <<1, 6>>, <<4, 4>> >>

Cells == {CellSeq[i] : i \in 1 .. (IF MaxCells < Len(CellSeq) THEN MaxCells ELSE Len(CellSeq))}

\* the values update is called with: the digits 0 .. MaxVal and, outside the
\* accepted list, -1 and MaxDigit + 1
Vals == (-1 .. MaxVal) \cup {MaxDigit + 1}

(***************************************************************************)
(* Accessors.  The grid a[r][c] is indexed from 0, as in the code.         *)
(***************************************************************************)
\* json.load: the file's nested lists, indexed from 0
json_load(f) == [r \in Idx |-> [c \in Idx |-> f[r + 1][c + 1]]]

\* return self.board[index]
get_row(b, index) == b[index]

\* return [self.board[i][index] for i in range(9)]
get_column(b, index) == [i \in Idx |-> b[i][index]]

\* return c//3 + (r//3 * 3)
get_boxIndex(r, c) == (c \div BoxSize) + ((r \div BoxSize) * BoxSize)

\* get_box with the band and the stack of the box exchanged:
\* row = index%3 * 3, column = index//3 * 3
get_box_transposed(b, index) ==
  LET row    == (index % BoxSize) * BoxSize
      column == (index \div BoxSize) * BoxSize
  IN  [k \in Idx |-> b[row + (k \div BoxSize)][column + (k % BoxSize)]]

\* the three slices board[row+i][column:column+3], i = 0, 1, 2, concatenated
get_box(b, index) ==
  LET row    == (index \div BoxSize) * BoxSize
      column == (index % BoxSize) * BoxSize
  IN  [k \in Idx |-> b[row + (k \div BoxSize)][column + (k % BoxSize)]]

\* d[i] = func(i) for i in range(9); the callable is given as the function
\* index |-> func(index)
makeDict(func) == [i \in Idx |-> func[i]]

\* get_mask with the polarity of the mask inverted: [val != 0 for val in lst]
get_mask_inverted(b) == [r \in Idx |-> [c \in Idx |-> b[r][c] # 0]]

\* [val == 0 for val in lst] for every row of the board
get_mask(b) == [r \in Idx |-> [c \in Idx |-> b[r][c] = 0]]

\* the state of a Puzzle object right after __init__(file)
Puzzle(f) ==
  LET b == json_load(f)
  IN  [ board   |-> b,
        rows    |-> makeDict([index \in Idx |-> get_row(b, index)]),
        columns |-> makeDict([index \in Idx |-> get_column(b, index)]),
        boxes   |-> makeDict([index \in Idx |-> get_box(b, index)]),
        mask    |-> get_mask(b),
        outcome |-> "init" ]

(***************************************************************************)
(* Writes.  rows[r] and board[r] are one list: a store through either name *)
(* changes both.  columns and boxes are separate lists.                    *)
(***************************************************************************)
\* self.rows[r][c] = v   and   self.board[r][c] = v   (the same list cell)
store_row(st, r, c, v) == [st EXCEPT !.board[r][c] = v, !.rows[r][c] = v]

\* self.columns[i][j] = v
store_column(st, i, j, v) == [st EXCEPT !.columns[i][j] = v]

\* self.boxes[i][j] = v
store_box(st, i, j, v) == [st EXCEPT !.boxes[i][j] = v]

(***************************************************************************)
(* is_valid.                                                               *)
(***************************************************************************)
\* len(l) == len(set(l)) for l = [val for val in unit if val != 0]
no_repeat(unit) ==
  LET l == {i \in Idx : unit[i] # 0}
  IN  Cardinality(l) = Cardinality({unit[i] : i \in l})

\* reads the cached views rows, columns, boxes, not the board
is_valid(st, row_index, column_index) ==
  LET box_index == get_boxIndex(row_index, column_index)
  IN  /\ no_repeat(st.rows[row_index])
      /\ no_repeat(st.columns[column_index])
      /\ no_repeat(st.boxes[box_index])

(***************************************************************************)
(* update.                                                                 *)
(***************************************************************************)
\* tentative with the box write indexed as the rollback indexes it:
\* self.boxes[box][b] = val
tentative_swapped(st, r, c, val) ==
  LET box == (c % BoxSize) + ((r % BoxSize) * BoxSize)
      b   == get_boxIndex(r, c)
  IN  store_box(store_column(store_row(st, r, c, val), c, r, val), box, b, val)

\* lines 184-186: the tentative writes into the three views
tentative(st, r, c, val) ==
  LET box == (c % BoxSize) + ((r % BoxSize) * BoxSize)
      b   == get_boxIndex(r, c)
  IN  store_box(store_column(store_row(st, r, c, val), c, r, val), b, box, val)

\* commit with the indices of the board write transposed: self.board[c][r] = val
commit_transposed(st, r, c, val) ==
  [store_row(st, c, r, val) EXCEPT !.outcome = "None"]

\* commit that recomputes the mask from the board it has just written
commit_remask(st, r, c, val) ==
  LET t == store_row(st, r, c, val)
  IN  [t EXCEPT !.outcome = "None", !.mask = get_mask(t.board)]

\* line 189: self.board[r][c] = val; return None
commit(st, r, c, val) ==
  [store_row(st, r, c, val) EXCEPT !.outcome = "None"]

\* rollback without the write-back of the row entry (self.rows[r][c] = prev)
rollback_no_row(st, r, c, prev) ==
  LET box == (c % BoxSize) + ((r % BoxSize) * BoxSize)
      b   == get_boxIndex(r, c)
      t   == store_box(store_column(st, c, r, prev), box, b, prev)
  IN  [t EXCEPT !.outcome = "ConflictValue"]

\* rollback that also recomputes the mask from the restored board
rollback_remask(st, r, c, prev) ==
  LET box == (c % BoxSize) + ((r % BoxSize) * BoxSize)
      b   == get_boxIndex(r, c)
      t   == store_box(store_column(store_row(st, r, c, prev), c, r, prev), box, b, prev)
  IN  [t EXCEPT !.outcome = "ConflictValue", !.mask = get_mask(t.board)]

\* lines 192-195: the write-back of prev; the box write-back is indexed
\* boxes[box][b], the forward write boxes[b][box]
rollback(st, r, c, prev) ==
  LET box == (c % BoxSize) + ((r % BoxSize) * BoxSize)
      b   == get_boxIndex(r, c)
      t   == store_box(store_column(store_row(st, r, c, prev), c, r, prev),
                       box, b, prev)
  IN  [t EXCEPT !.outcome = "ConflictValue"]

\* update with the fixed-cell check made before the value check
update_fixed_first(st, r, c, val) ==
  IF st.mask[r][c] = FALSE
  THEN [st EXCEPT !.outcome = "FixedValue"]
  ELSE IF val \notin 0 .. MaxDigit
  THEN [st EXCEPT !.outcome = "InvalidValue"]
  ELSE LET prev == st.board[r][c]
           t    == tentative(st, r, c, val)
       IN  IF is_valid(t, r, c)
           THEN commit(t, r, c, val)
           ELSE rollback(t, r, c, prev)

\* update without the fixed-cell check of lines 177-178
update_unmasked(st, r, c, val) ==
  IF val \notin 0 .. MaxDigit
  THEN [st EXCEPT !.outcome = "InvalidValue"]
  ELSE LET prev == st.board[r][c]
           t    == tentative(st, r, c, val)
       IN  IF is_valid(t, r, c)
           THEN commit(t, r, c, val)
           ELSE rollback(t, r, c, prev)

\* lines 174-195
update(st, r, c, val) ==
  IF val \notin 0 .. MaxDigit
  THEN [st EXCEPT !.outcome = "InvalidValue"]
  ELSE IF st.mask[r][c] = FALSE
  THEN [st EXCEPT !.outcome = "FixedValue"]
  ELSE LET prev == st.board[r][c]
           t    == tentative(st, r, c, val)
       IN  IF is_valid(t, r, c)
           THEN commit(t, r, c, val)
           ELSE rollback(t, r, c, prev)

\* is_solved that returns True from inside the loop, after the first row
is_solved_first_row(b) == ~(\E c \in Idx : b[0][c] = 0)

\* for row in self.board: if 0 in row: return False
is_solved(b) == \A r \in Idx : ~(\E c \in Idx : b[r][c] = 0)

(***************************************************************************)
(* The state machine: one Puzzle object and the calls of update on it.     *)
(***************************************************************************)
Self ==
  [ board |-> board, rows |-> rows, columns |-> columns, boxes |-> boxes,
    mask |-> mask, outcome |-> outcome ]

Becomes(st) ==
  /\ board'   = st.board
  /\ rows'    = st.rows
  /\ columns' = st.columns
  /\ boxes'   = st.boxes
  /\ mask'    = st.mask
  /\ outcome' = st.outcome

Init ==
  \E f \in Puzzles :
    /\ file    = f
    /\ board   = Puzzle(f).board
    /\ rows    = Puzzle(f).rows
    /\ columns = Puzzle(f).columns
    /\ boxes   = Puzzle(f).boxes
    /\ mask    = Puzzle(f).mask
    /\ outcome = Puzzle(f).outcome
    /\ calls   = << >>

Update(r, c, val) ==
  /\ Becomes(update(Self, r, c, val))
  /\ UNCHANGED <<file, calls>>

Next == \E cell \in Cells : \E val \in Vals : Update(cell[1], cell[2], val)

Spec == Init /\ [][Next]_vars

(***************************************************************************)
(* Two callers running update on the same object without a lock.  Each     *)
(* call advances one line at a time, through update and through the        *)
(* is_valid it calls; pc names the line the call is about to execute, and  *)
(* the other call can run between any two lines.  A line that copies a     *)
(* list (145, 146, 147) copies it at one moment: the other call writes at  *)
(* most one entry of that list, so a copy made entry by entry is the list  *)
(* as it was when that entry was copied.  update's locals box and b depend *)
(* on its arguments only and are computed where they are used.             *)
(***************************************************************************)
Threads == {1, 2}

\* the cells the two concurrent calls are made on, in the order the bound
\* admits them: (1,4) and (1,6) are two empty cells of one row of PuzzleA,
\* (0,1) shares no unit with either, (1,6) and (0,3) are fixed in other files
RaceCellSeq == << <<1, 4>>, <<1, 6>>, <<0, 1>>, <<0, 3>> >>

RaceCells ==
  {RaceCellSeq[i] : i \in 1 .. (IF MaxRaceCells < Len(RaceCellSeq) THEN MaxRaceCells ELSE Len(RaceCellSeq))}

Other(t) == CHOOSE u \in Threads : u # t

\* the call of t has executed a line and has not returned or raised
InFlight(t) == calls[t].pc \notin {"l174", "done"}

At(t, line) == calls[t].pc = line

\* what a line leaves alone when it writes none of the object's lists
ObjUnchanged == UNCHANGED <<file, board, rows, columns, boxes, mask>>

\* the object's lists after a line that writes one of them
Writes(st) ==
  /\ board'   = st.board
  /\ rows'    = st.rows
  /\ columns' = st.columns
  /\ boxes'   = st.boxes
  /\ mask'    = st.mask
  /\ UNCHANGED file

\* the call of t, with its locals as in call, is now before line; raced
\* records that the other call was in progress when this one executed a line
Assign(t, line, call) ==
  /\ calls' = [calls EXCEPT ![t] = [call EXCEPT !.pc = line,
                                                !.raced = @ \/ InFlight(Other(t))]]
  /\ UNCHANGED outcome

\* control passes to line, the locals as they are
Goto(t, line) == Assign(t, line, calls[t])

\* the call returns None or raises
Return(t, res) ==
  /\ calls' = [calls EXCEPT ![t].pc = "done", ![t].result = res,
                            ![t].raced = @ \/ InFlight(Other(t))]
  /\ outcome' = res

\* a local list of is_valid that is not bound: before its line has run, and
\* after is_valid has returned
Unbound == << -1 >>

\* [val for val in unit if val != 0]: the non-zero values of unit, in order
non_zero(unit) ==
  LET upto[i \in 0 .. N] ==
        IF i = 0 THEN << >>
        ELSE IF unit[i - 1] # 0 THEN Append(upto[i - 1], unit[i - 1])
        ELSE upto[i - 1]
  IN  upto[N]

\* len(l) != len(set(l)) is false
all_differ(l) == Len(l) = Cardinality({l[i] : i \in 1 .. Len(l)})

\* is_valid returns: its locals are gone
Returned(call) ==
  [call EXCEPT !.row = Unbound, !.column = Unbound, !.box = Unbound]

\* a freshly constructed Puzzle and two calls about to start; the local prev
\* is not yet bound (-1)
InitRace ==
  /\ \E f \in Puzzles :
       /\ file    = f
       /\ board   = Puzzle(f).board
       /\ rows    = Puzzle(f).rows
       /\ columns = Puzzle(f).columns
       /\ boxes   = Puzzle(f).boxes
       /\ mask    = Puzzle(f).mask
       /\ outcome = Puzzle(f).outcome
  /\ \E cell \in [Threads -> RaceCells] : \E val \in [Threads -> Vals] :
       calls = [t \in Threads |->
                 [ pc |-> "l174", r |-> cell[t][1], c |-> cell[t][2],
                   val |-> val[t], prev |-> -1, row |-> Unbound,
                   column |-> Unbound, box |-> Unbound,
                   result |-> "running",
                   raced |-> FALSE ]]

\* line 174: if val not in [0,1,2,3,4,5,6,7,8,9]
CheckVal(t) ==
  /\ At(t, "l174")
  /\ IF calls[t].val \notin 0 .. MaxDigit
     THEN Goto(t, "l175")
     ELSE Goto(t, "l177")
  /\ ObjUnchanged

\* line 175: raise exceptions.InvalidValue()
RaiseInvalidValue(t) ==
  /\ At(t, "l175")
  /\ Return(t, "InvalidValue")
  /\ ObjUnchanged

\* line 177: if self.mask[r][c] == False
CheckMask(t) ==
  /\ At(t, "l177")
  /\ IF mask[calls[t].r][calls[t].c] = FALSE
     THEN Goto(t, "l178")
     ELSE Goto(t, "l180")
  /\ ObjUnchanged

\* line 178: raise exceptions.FixedValue()
RaiseFixedValue(t) ==
  /\ At(t, "l178")
  /\ Return(t, "FixedValue")
  /\ ObjUnchanged

\* line 180: prev = self.board[r][c]
ReadPrev(t) ==
  /\ At(t, "l180")
  /\ Assign(t, "l181", [calls[t] EXCEPT !.prev = board[calls[t].r][calls[t].c]])
  /\ ObjUnchanged

\* line 181: box = c%3 + (r%3 * 3)
InBoxPosition(t) ==
  /\ At(t, "l181")
  /\ Goto(t, "l182")
  /\ ObjUnchanged

\* line 182: b = self.get_boxIndex(r,c)
BoxOfCell(t) ==
  /\ At(t, "l182")
  /\ Goto(t, "l184")
  /\ ObjUnchanged

\* line 184: self.rows[r][c] = val
WriteRow(t) ==
  /\ At(t, "l184")
  /\ Writes(store_row(Self, calls[t].r, calls[t].c, calls[t].val))
  /\ Goto(t, "l185")

\* line 185: self.columns[c][r] = val
WriteColumn(t) ==
  /\ At(t, "l185")
  /\ Writes(store_column(Self, calls[t].c, calls[t].r, calls[t].val))
  /\ Goto(t, "l186")

\* line 186: self.boxes[b][box] = val
WriteBox(t) ==
  LET r   == calls[t].r
      c   == calls[t].c
      box == (c % BoxSize) + ((r % BoxSize) * BoxSize)
      b   == get_boxIndex(r, c)
  IN  /\ At(t, "l186")
      /\ Writes(store_box(Self, b, box, calls[t].val))
      /\ Goto(t, "l188")

\* line 188: if self.is_valid(r,c): the call
CallIsValid(t) ==
  /\ At(t, "l188")
  /\ Goto(t, "l144")
  /\ ObjUnchanged

\* line 144: box_index = self.get_boxIndex(row_index, column_index)
BoxIndexOfCell(t) ==
  /\ At(t, "l144")
  /\ Goto(t, "l145")
  /\ ObjUnchanged

\* line 145: row = [val for val in self.rows[row_index] if val != 0]
ReadRowView(t) ==
  /\ At(t, "l145")
  /\ Assign(t, "l146", [calls[t] EXCEPT !.row = non_zero(rows[calls[t].r])])
  /\ ObjUnchanged

\* line 146: column = [val for val in self.columns[column_index] if val != 0]
ReadColumnView(t) ==
  /\ At(t, "l146")
  /\ Assign(t, "l147",
            [calls[t] EXCEPT !.column = non_zero(columns[calls[t].c])])
  /\ ObjUnchanged

\* line 147: box = [val for val in self.boxes[box_index] if val != 0]
ReadBoxView(t) ==
  LET box_index == get_boxIndex(calls[t].r, calls[t].c)
  IN  /\ At(t, "l147")
      /\ Assign(t, "l149", [calls[t] EXCEPT !.box = non_zero(boxes[box_index])])
      /\ ObjUnchanged

\* line 149: if len(row) != len(set(row))
TestRow(t) ==
  /\ At(t, "l149")
  /\ IF all_differ(calls[t].row) THEN Goto(t, "l151") ELSE Goto(t, "l150")
  /\ ObjUnchanged

\* line 151: if len(column) != len(set(column))
TestColumn(t) ==
  /\ At(t, "l151")
  /\ IF all_differ(calls[t].column) THEN Goto(t, "l153") ELSE Goto(t, "l152")
  /\ ObjUnchanged

\* line 153: if len(box) != len(set(box))
TestBox(t) ==
  /\ At(t, "l153")
  /\ IF all_differ(calls[t].box) THEN Goto(t, "l155") ELSE Goto(t, "l154")
  /\ ObjUnchanged

\* lines 150, 152, 154: return False; the if of line 188 passes to line 192
ReturnFalse(t) ==
  /\ calls[t].pc \in {"l150", "l152", "l154"}
  /\ Assign(t, "l192", Returned(calls[t]))
  /\ ObjUnchanged

\* line 155: return True; the if of line 188 passes to line 189
ReturnTrue(t) ==
  /\ At(t, "l155")
  /\ Assign(t, "l189", Returned(calls[t]))
  /\ ObjUnchanged

\* line 189: self.board[r][c] = val
CommitBoard(t) ==
  /\ At(t, "l189")
  /\ Writes(store_row(Self, calls[t].r, calls[t].c, calls[t].val))
  /\ Goto(t, "l190")

\* line 190: return None
ReturnNone(t) ==
  /\ At(t, "l190")
  /\ Return(t, "None")
  /\ ObjUnchanged

\* RestoreRow that leaves the row as the tentative write made it
RestoreRow_skipped(t) ==
  /\ At(t, "l192")
  /\ ObjUnchanged
  /\ Goto(t, "l193")

\* line 192: self.rows[r][c] = prev
RestoreRow(t) ==
  /\ At(t, "l192")
  /\ Writes(store_row(Self, calls[t].r, calls[t].c, calls[t].prev))
  /\ Goto(t, "l193")

\* line 193: self.columns[c][r] = prev
RestoreColumn(t) ==
  /\ At(t, "l193")
  /\ Writes(store_column(Self, calls[t].c, calls[t].r, calls[t].prev))
  /\ Goto(t, "l194")

\* line 194: self.boxes[box][b] = prev
RestoreBox(t) ==
  LET r   == calls[t].r
      c   == calls[t].c
      box == (c % BoxSize) + ((r % BoxSize) * BoxSize)
      b   == get_boxIndex(r, c)
  IN  /\ At(t, "l194")
      /\ Writes(store_box(Self, box, b, calls[t].prev))
      /\ Goto(t, "l195")

\* line 195: raise exceptions.ConflictValue()
RaiseConflictValue(t) ==
  /\ At(t, "l195")
  /\ Return(t, "ConflictValue")
  /\ ObjUnchanged

NextRace ==
  \E t \in Threads :
    \/ CheckVal(t)
    \/ RaiseInvalidValue(t)
    \/ CheckMask(t)
    \/ RaiseFixedValue(t)
    \/ ReadPrev(t)
    \/ InBoxPosition(t)
    \/ BoxOfCell(t)
    \/ WriteRow(t)
    \/ WriteColumn(t)
    \/ WriteBox(t)
    \/ CallIsValid(t)
    \/ BoxIndexOfCell(t)
    \/ ReadRowView(t)
    \/ ReadColumnView(t)
    \/ ReadBoxView(t)
    \/ TestRow(t)
    \/ TestColumn(t)
    \/ TestBox(t)
    \/ ReturnFalse(t)
    \/ ReturnTrue(t)
    \/ CommitBoard(t)
    \/ ReturnNone(t)
    \/ RestoreRow(t)
    \/ RestoreColumn(t)
    \/ RestoreBox(t)
    \/ RaiseConflictValue(t)

SpecRace == InitRace /\ [][NextRace]_vars

(***************************************************************************)
(* Reference notions, stated on the grid alone.                            *)
(***************************************************************************)
RowCells(r) == {<<r, j>> : j \in Idx}

ColCells(c) == {<<i, c>> : i \in Idx}

BoxCells(r, c) ==
  {p \in Idx \X Idx : /\ p[1] \div BoxSize = r \div BoxSize
                      /\ p[2] \div BoxSize = c \div BoxSize}

\* the non-zero values of grid g on the cells of a unit are pairwise distinct
Distinct(g, cells) ==
  \A p \in cells : \A q \in cells :
    (p # q /\ g[p[1]][p[2]] # 0) => g[p[1]][p[2]] # g[q[1]][q[2]]

\* the three units of cell (r, c) have no repeated non-zero value in grid g
UnitsLegal(g, r, c) ==
  /\ Distinct(g, RowCells(r))
  /\ Distinct(g, ColCells(c))
  /\ Distinct(g, BoxCells(r, c))

\* grid g is legal: no row, column or box repeats a non-zero value
Legal(g) ==
  \A i \in Idx :
    /\ Distinct(g, RowCells(i))
    /\ Distinct(g, ColCells(i))
    /\ Distinct(g, BoxCells((i \div BoxSize) * BoxSize, (i % BoxSize) * BoxSize))

\* the grid the constructor loaded
InitialGrid == json_load(file)

\* the calls that are not accepted values
BadVals == Vals \ (0 .. MaxDigit)

(***************************************************************************)
(* Claims.                                                                 *)
(***************************************************************************)

\* C1: after any sequence of update calls from a legal initial grid, the grid
\* is legal: no row, column or box holds a non-zero value twice.
C1_GridLegal == Legal(InitialGrid) => Legal(board)

\* C2: for every editable cell and every val in 0..9, update raises
\* ConflictValue exactly when writing val there would repeat a non-zero value
\* in the cell's grid row, column or box, and succeeds otherwise.
C2_ConflictIffDuplicate ==
  \A cell \in Cells : \A val \in 0 .. MaxVal :
    LET r   == cell[1]
        c   == cell[2]
        dup == ~UnitsLegal([board EXCEPT ![r][c] = val], r, c)
        o   == update(Self, r, c, val).outcome
    IN  mask[r][c] => /\ (o = "ConflictValue") <=> dup
                      /\ (~dup) => (o = "None")

\* C3: whenever update fails with ConflictValue, the grid after the call is
\* the grid before the call, all 81 cells.
C3_ConflictRollback ==
  \A cell \in Cells : \A val \in Vals :
    LET st == update(Self, cell[1], cell[2], val)
    IN  (st.outcome = "ConflictValue") => (st.board = board)

\* a conflict has been raised on a grid that earlier updates have changed
C3_Witness == outcome = "ConflictValue" /\ board # InitialGrid

\* C4: on a fixed cell (initial value non-zero) update fails with FixedValue
\* for every val in 0..9 and leaves the grid unchanged.
C4_FixedCells ==
  \A cell \in Cells : \A val \in 0 .. MaxDigit :
    LET r  == cell[1]
        c  == cell[2]
        st == update(Self, r, c, val)
    IN  (InitialGrid[r][c] # 0) =>
          (st.outcome = "FixedValue" /\ st.board = board)

\* a FixedValue has been raised on a grid that earlier updates have changed
C4_Witness == outcome = "FixedValue" /\ board # InitialGrid

\* C5: for every val outside 0..9 and every cell, fixed or editable, update
\* fails with InvalidValue and leaves the grid unchanged.
C5_InvalidFirst ==
  \A cell \in Cells : \A val \in BadVals :
    LET st == update(Self, cell[1], cell[2], val)
    IN  st.outcome = "InvalidValue" /\ st.board = board

\* an InvalidValue has been raised, and both a fixed and an editable cell are
\* among the cells called
C5_Witness ==
  /\ outcome = "InvalidValue"
  /\ board # InitialGrid
  /\ \E p \in Cells : \E q \in Cells : mask[p[1]][p[2]] /\ ~mask[q[1]][q[2]]

\* C6: whenever update succeeds, the grid holds val at (r,c) and every other
\* cell holds its value from before the call.
C6_SuccessFrame ==
  \A cell \in Cells : \A val \in Vals :
    LET r  == cell[1]
        c  == cell[2]
        st == update(Self, r, c, val)
    IN  (st.outcome = "None") => (st.board = [board EXCEPT ![r][c] = val])

\* an update has succeeded and the grid differs from the initial one
C6_Witness == outcome = "None" /\ board # InitialGrid

\* C7: if update(r,c,val) succeeds on a cell that held prevVal, then
\* update(r,c,prevVal) right after it succeeds too and gives back the grid
\* from before the first call.
C7_RoundTrip ==
  Legal(InitialGrid) =>
    \A cell \in Cells : \A val \in Vals :
      LET r  == cell[1]
          c  == cell[2]
          s1 == update(Self, r, c, val)
          s2 == update(s1, r, c, board[r][c])
      IN  (s1.outcome = "None") => (s2.outcome = "None" /\ s2.board = board)

\* C8: if update(r,c,val) succeeds, the same call right after it succeeds too
\* and leaves the grid unchanged.
C8_Idempotent ==
  \A cell \in Cells : \A val \in Vals :
    LET r  == cell[1]
        c  == cell[2]
        s1 == update(Self, r, c, val)
        s2 == update(s1, r, c, val)
    IN  (s1.outcome = "None") => (s2.outcome = "None" /\ s2.board = s1.board)

\* an update has succeeded and an editable cell holds a digit, so that the
\* repeated call writes a digit over itself
C8_Witness ==
  /\ outcome = "None"
  /\ \E p \in Cells : mask[p[1]][p[2]] /\ board[p[1]][p[2]] # 0

\* C9: after a failed update, every later call has the outcome and gives the
\* grid it would have had if the failed call had never been made (stated for
\* the first later call).
C9_FailedNoTrace ==
  \A cell \in Cells : \A val \in Vals :
    LET failed == update(Self, cell[1], cell[2], val)
    IN  (failed.outcome # "None") =>
          \A cell2 \in Cells : \A val2 \in Vals :
            LET with    == update(failed, cell2[1], cell2[2], val2)
                without == update(Self, cell2[1], cell2[2], val2)
            IN  /\ with.outcome = without.outcome
                /\ with.board = without.board

\* C10: from a legal initial grid, whenever is_solved() is true the grid is a
\* complete valid solution: every cell holds a digit 1..9 and no row, column
\* or box repeats one.
C10_SolvedIsSolution ==
  (is_solved(board) /\ Legal(InitialGrid)) =>
    /\ \A r \in Idx : \A c \in Idx : board[r][c] \in 1 .. MaxDigit
    /\ Legal(board)

\* C11: in every reachable state update(r,c,0) on an editable cell succeeds
\* and leaves 0 in the cell, also when is_solved() is true.
C11_ClearPermitted ==
  Legal(InitialGrid) =>
    \A cell \in Cells :
      LET r  == cell[1]
          c  == cell[2]
          st == update(Self, r, c, 0)
      IN  mask[r][c] => (st.outcome = "None" /\ st.board[r][c] = 0)

\* C12: after any sequence of update calls every cell whose initial value was
\* non-zero still holds its initial value.
C12_FixedNeverChange ==
  \A r \in Idx : \A c \in Idx :
    (InitialGrid[r][c] # 0) => (board[r][c] = InitialGrid[r][c])

\* updates have changed the grid and the last call was refused on a fixed cell
C12_Witness ==
  /\ outcome = "FixedValue"
  /\ \E p \in Cells : InitialGrid[p[1]][p[2]] = 0 /\ board[p[1]][p[2]] # 0

\* the cells of grid g that hold 0
ZeroCells(g) == {p \in Idx \X Idx : g[p[1]][p[2]] = 0}

\* C13: is_solved() is true exactly when no cell of the grid holds 0; on a
\* grid whose only zero is at an editable cell it is false, and after a
\* successful update of that cell with a digit 1..9 it is true.
C13_IsSolved ==
  /\ is_solved(board) <=> (ZeroCells(board) = {})
  /\ \A cell \in Cells : \A val \in 1 .. MaxVal :
       LET r  == cell[1]
           c  == cell[2]
           st == update(Self, r, c, val)
       IN  (ZeroCells(board) = {cell} /\ mask[r][c]) =>
             /\ ~is_solved(board)
             /\ (st.outcome = "None") => is_solved(st.board)

\* a successful update has filled the last empty cell
C13_Witness == outcome = "None" /\ is_solved(board) /\ board # InitialGrid

\* C14: get_row(i), get_column(i) and get_box(i) return the current grid
\* values of the unit, and right after a successful update(r,c,val) the
\* entries of get_row(r), get_column(c) and get_box(boxIndex(r,c)) for the
\* cell (r,c) equal val.
C14_Accessors ==
  /\ \A r \in Idx : \A c \in Idx :
       /\ get_row(board, r)[c] = board[r][c]
       /\ get_column(board, c)[r] = board[r][c]
       /\ get_box(board, ((r \div 3) * 3) + (c \div 3))[((r % 3) * 3) + (c % 3)]
            = board[r][c]
  /\ \A cell \in Cells : \A val \in Vals :
       LET r  == cell[1]
           c  == cell[2]
           st == update(Self, r, c, val)
       IN  (st.outcome = "None") =>
             /\ get_row(st.board, r)[c] = val
             /\ get_column(st.board, c)[r] = val
             /\ get_box(st.board, get_boxIndex(r, c))[((r % 3) * 3) + (c % 3)] = val

\* after a successful update an accessor returns a value the constructor did
\* not load
C14_Witness ==
  /\ outcome = "None"
  /\ \E p \in Cells : get_column(board, p[2])[p[1]] # InitialGrid[p[1]][p[2]]

\* the cached views hold what the accessors compute from the grid
InLockstep(st) ==
  \A i \in Idx :
    /\ st.rows[i]    = get_row(st.board, i)
    /\ st.columns[i] = get_column(st.board, i)
    /\ st.boxes[i]   = get_box(st.board, i)

\* C15: after every update call, returned or raised, rows[i], columns[i] and
\* boxes[i] equal the row, column and box computed from the grid, for all i
\* (which is what a rollback that reverts the three view entries tentatively
\* written, and no other, preserves).
C15_ViewsInLockstep == InLockstep(Self)

\* C16: in every reachable state is_valid(r,c) is true exactly when the
\* non-zero values of grid row r, of grid column c and of the grid box of
\* (r,c) are each pairwise distinct.
C16_IsValidReference ==
  \A r \in Idx : \A c \in Idx :
    is_valid(Self, r, c) <=> UnitsLegal(board, r, c)

\* a value no cell holds, to tell the entry a write addresses
Marker == MaxDigit + 1

\* the in-box position of cell (r, c), as the claim states it
InBox(r, c) == ((r % 3) * 3) + (c % 3)

\* C17: for all r,c in 0..8, get_boxIndex(r,c) is (r div 3)*3 + (c div 3) and
\* lies in 0..8 (0 for (0,0), 2 for (0,8), 4 for (4,4), 8 for (8,8)); the
\* entry that update writes, boxes[get_boxIndex(r,c)][(r mod 3)*3 + (c mod 3)],
\* is the entry of get_box(get_boxIndex(r,c)) that holds grid cell (r,c), and
\* no other; distinct cells have distinct (box, position) pairs.
C17_BoxIndexing ==
  /\ get_boxIndex(0, 0) = 0 /\ get_boxIndex(0, 8) = 2
  /\ get_boxIndex(4, 4) = 4 /\ get_boxIndex(8, 8) = 8
  /\ \A r \in Idx : \A c \in Idx :
       LET b == get_boxIndex(r, c)
           t == tentative(Self, r, c, Marker)
       IN  /\ b = ((r \div 3) * 3) + (c \div 3)
           /\ b \in 0 .. 8
           /\ get_box(board, b)[InBox(r, c)] = board[r][c]
           /\ t.boxes = [boxes EXCEPT ![b][InBox(r, c)] = Marker]
           /\ {k \in Idx : get_box(t.board, b)[k] = Marker} = {InBox(r, c)}
  /\ Cardinality({<<get_boxIndex(p[1], p[2]), InBox(p[1], p[2])>> : p \in Idx \X Idx})
       = Cardinality(Idx \X Idx)

\* a successful update has written a digit into a cell whose box index and
\* in-box position differ, and the box view holds it where get_box reads it
C17_Witness ==
  /\ outcome = "None"
  /\ \E p \in Cells :
       LET b == get_boxIndex(p[1], p[2])
       IN  /\ b # InBox(p[1], p[2])
           /\ board[p[1]][p[2]] # 0
           /\ InitialGrid[p[1]][p[2]] = 0
           /\ boxes[b][InBox(p[1], p[2])] = get_box(board, b)[InBox(p[1], p[2])]

\* C18: in every reachable state mask[r][c] is true exactly when the initial
\* grid value at (r,c) was 0; no update, successful or failed, changes the
\* mask, so a cell filled by a successful update stays editable.
C18_MaskImmutable ==
  /\ \A r \in Idx : \A c \in Idx : mask[r][c] <=> (InitialGrid[r][c] = 0)
  /\ \A cell \in Cells : \A val \in Vals :
       LET st == update(Self, cell[1], cell[2], val)
       IN  /\ st.mask = mask
           /\ (st.outcome = "None" /\ val # 0) =>
                /\ st.board[cell[1]][cell[2]] # 0
                /\ st.mask[cell[1]][cell[2]]

\* an update has failed with a conflict while a cell that was empty at
\* construction holds a digit and is still editable
C18_Witness ==
  /\ outcome = "ConflictValue"
  /\ \E p \in Cells :
       /\ InitialGrid[p[1]][p[2]] = 0
       /\ board[p[1]][p[2]] # 0
       /\ mask[p[1]][p[2]]

(***************************************************************************)
(* Two calls of update, run together and run one after the other.          *)
(***************************************************************************)
\* the call of t alone, on the freshly constructed object
First(t) == update(Puzzle(file), calls[t].r, calls[t].c, calls[t].val)

\* the call of t run to its end, then the call of u
Serial(t, u) == update(First(t), calls[u].r, calls[u].c, calls[u].val)

BothDone == \A t \in Threads : calls[t].pc = "done"

\* some statement of one call was executed while the other was in progress
Overlapped == \E t \in Threads : calls[t].raced

\* the two calls are on the same cell or on cells of one row, column or box
SameUnit ==
  \/ calls[1].r = calls[2].r
  \/ calls[1].c = calls[2].c
  \/ get_boxIndex(calls[1].r, calls[1].c) = get_boxIndex(calls[2].r, calls[2].c)

\* both calls are over and the grid is the result of neither serial order
GridOfNoSerialOrder ==
  /\ BothDone
  /\ board # Serial(1, 2).board
  /\ board # Serial(2, 1).board

\* the cell a call is made on
CellOf(t) == <<calls[t].r, calls[t].c>>

\* the value the cell of call t held when the object was constructed
InitialAt(t) == InitialGrid[calls[t].r][calls[t].c]

\* the calls are on two cells of one unit; each call, made alone, succeeds
\* and changes its cell; run together, both raise ConflictValue
BothRolledBack ==
  /\ BothDone
  /\ CellOf(1) # CellOf(2)
  /\ SameUnit
  /\ \A t \in Threads :
       /\ First(t).outcome = "None"
       /\ calls[t].val # InitialAt(t)
       /\ calls[t].result = "ConflictValue"

\* the calls are on one cell; the call of u succeeds in either serial
\* position and the call of t writes a value the cell did not hold; run
\* together, u returns None, t raises ConflictValue and the cell does not
\* hold the value of u
Overwritten(t) ==
  LET u == Other(t)
  IN  /\ BothDone
      /\ CellOf(t) = CellOf(u)
      /\ First(u).outcome = "None"
      /\ Serial(t, u).outcome = "None"
      /\ calls[t].val # InitialAt(t)
      /\ calls[u].result = "None"
      /\ calls[t].result = "ConflictValue"
      /\ board[calls[u].r][calls[u].c] # calls[u].val

\* C19: two update calls on one cell or on two cells of one unit, interleaved
\* line by line (read prev, tentative writes, is_valid, commit or rollback),
\* can end with a grid that is the result of neither serial order.  On two
\* cells of one unit: when each call alone succeeds and, run together, both
\* raise ConflictValue, the calls overlapped, the grid is the initial one and
\* it is the result of neither serial order.  On one cell: when a call that
\* succeeds in either serial position returns None and the cell does not
\* hold its value, the calls overlapped, the cell holds the prev the failed
\* call had read, and the grid is the result of neither serial order.
C19_RaceLosesUpdate ==
  /\ BothRolledBack =>
       /\ Overlapped
       /\ board = InitialGrid
       /\ GridOfNoSerialOrder
  /\ \A t \in Threads :
       Overwritten(t) =>
         /\ Overlapped
         /\ board[calls[t].r][calls[t].c] = calls[t].prev
         /\ GridOfNoSerialOrder

\* two calls on two cells of one unit, each of which succeeds alone, have
\* overlapped and both raised ConflictValue: neither value is in the grid
C19_Witness == BothRolledBack /\ Overlapped /\ GridOfNoSerialOrder

\* two calls on one cell have overlapped; one returned None and its value is
\* not in the grid
SameCellLostUpdate == \E t \in Threads : Overwritten(t) /\ GridOfNoSerialOrder

====
